---- MODULE Spec2Model ----
(***************************************************************************)
(* Task management API (src/task_management_api): the Task and User         *)
(* entities, the BaseRepository / TaskRepository / UserRepository data     *)
(* access layer and the TaskService / UserService business layer, as a     *)
(* state machine over the committed rows of tables "tasks" and "users";    *)
(* and the task items of Flask_API and Django_API over table "task_items". *)
(*                                                                         *)
(* Spec      the writes of TaskService, from an empty table                *)
(* PageSpec  the paged reads GET /tasks and GET /users over drawn tables   *)
(* StatsSpec the task statistics over drawn tables                         *)
(* ItemSpec  the writes of task items, from an empty table                 *)
(* UserSpec  the writes of UserService, from an empty table                *)
(* ConcSpec  update_task requests in flight together, on one stored task   *)
(*                                                                         *)
(* Conventions.  Optional[T] is a sequence: <<>> is None, <<x>> is x.      *)
(* Text (str) is a sequence of one-character strings.  An enum member is a *)
(* record [enum, value]: members of different enum classes are different   *)
(* values even when their .value is the same string, as in Python.         *)
(* Every handler runs at the instant `now` (datetime.utcnow() / func.now()) *)
(* and writes are handled one after the other, each at a later instant;    *)
(* in ConcSpec a request is two steps, its reads and its commit.           *)
(***************************************************************************)
EXTENDS Integers, Sequences, FiniteSets, TLC

VARIABLES
    db,     \* committed rows of table "tasks"; db[i] is the row with id = i
    now,    \* the clock read by datetime.utcnow() and func.now()
    last,   \* the last service call: its arguments, what it raised or returned
    users,  \* committed rows of table "users"; users[i] is the row with id = i
    items,  \* rows of table "task_items" (Flask_API, Django_API), by id
    sessions \* the unit of work of each request in flight: what it loaded
             \* and what it changed on the loaded entity, not yet committed

vars == <<db, now, last, users, items, sessions>>

\* ---------------------------------------------------------------- bounds
MaxTasks == 2
MaxTime == 3

\* ------------------------------------------------------- enums and values
None == <<>>
Some(x) == <<x>>

TaskStatus(v) == [enum |-> "TaskStatus", value |-> v]
TaskPriority(v) == [enum |-> "TaskPriority", value |-> v]
TaskStatusDTO(v) == [enum |-> "TaskStatusDTO", value |-> v]
TaskPriorityDTO(v) == [enum |-> "TaskPriorityDTO", value |-> v]

StatusValues == {"pending", "in_progress", "completed", "cancelled"}
PriorityValues == {"low", "medium", "high", "urgent"}

PENDING == TaskStatus("pending")
IN_PROGRESS == TaskStatus("in_progress")
COMPLETED == TaskStatus("completed")
CANCELLED == TaskStatus("cancelled")
HIGH == TaskPriority("high")
URGENT == TaskPriority("urgent")

\* str.lower() on the letters the model uses
LowerChar(c) ==
    CASE c = "A" -> "a" [] c = "B" -> "b" [] c = "C" -> "c" [] c = "D" -> "d"
      [] c = "E" -> "e" [] c = "S" -> "s" [] OTHER -> c
lower(s) == [i \in 1..Len(s) |-> LowerChar(s[i])]

\* the exceptions of the service layer, with their message as the pieces
\* the f-string is built from
TaskNotFoundError(task_id) ==
    [type |-> "TaskNotFoundError",
     msg |-> <<"Task with ID ", ToString(task_id), " not found">>]
TaskValidationError(m) == [type |-> "TaskValidationError", msg |-> m]
UnauthorizedOperationError(m) == [type |-> "UnauthorizedOperationError", msg |-> m]

\* ------------------------------------------------------------ Task entity
\* variants of the entity methods, each with one slip (used to test the properties)
mark_as_completed_if_in_progress(task, t) ==
    IF task.status = IN_PROGRESS
    THEN [task EXCEPT !.status = COMPLETED, !.completed_at = Some(t)]
    ELSE task

mark_as_completed_no_stamp(task, t) == [task EXCEPT !.status = COMPLETED]

mark_as_completed(task, t) ==
    [task EXCEPT !.status = COMPLETED, !.completed_at = Some(t)]

assign_to_user_always_in_progress(task, user_id) ==
    [task EXCEPT !.assigned_to = Some(user_id), !.status = IN_PROGRESS]

assign_to_user_keeps_status(task, user_id) ==
    [task EXCEPT !.assigned_to = Some(user_id)]

assign_to_user(task, user_id) ==
    [task EXCEPT !.assigned_to = Some(user_id),
                 !.status = IF task.status = PENDING THEN IN_PROGRESS ELSE @]

cancel_task(task) == [task EXCEPT !.status = CANCELLED]

is_overdue_any_status(task, t) ==
    IF task.due_date = None THEN FALSE ELSE task.due_date[1] < t

is_overdue(task, t) ==
    IF task.due_date = None
    THEN FALSE
    ELSE task.due_date[1] < t /\ task.status \notin {COMPLETED, CANCELLED}

can_be_edited_unless_completed(task) == task.status # COMPLETED

can_be_edited(task) == task.status \notin {COMPLETED, CANCELLED}

\* a new task that starts in_progress (used to test the properties)
NewTask_in_progress(req, id, t) ==
    [id |-> id,
     title |-> req.title[1],
     description |-> req.description,
     status |-> IN_PROGRESS,
     priority |-> TaskPriority(req.priority[1].value),
     created_by |-> req.created_by[1],
     assigned_to |-> req.assigned_to,
     created_at |-> t,
     updated_at |-> None,
     due_date |-> req.due_date,
     completed_at |-> None,
     is_deleted |-> FALSE]

\* Task(...) as create_task builds it, then INSERTed: the column defaults
\* (id autoincrement, created_at server_default, is_deleted default) applied
NewTask(req, id, t) ==
    [id |-> id,
     title |-> req.title[1],
     description |-> req.description,
     status |-> PENDING,
     priority |-> TaskPriority(req.priority[1].value),
     created_by |-> req.created_by[1],
     assigned_to |-> req.assigned_to,
     created_at |-> t,
     updated_at |-> None,
     due_date |-> req.due_date,
     completed_at |-> None,
     is_deleted |-> FALSE]

\* ------------------------------------------------------------- repository
Rows == {db[i] : i \in 1..Len(db)}
NotDeleted == {r \in Rows : r.is_deleted # TRUE}

get_by_id(entity_id) ==
    LET found == {r \in Rows : r.id = entity_id /\ r.is_deleted # TRUE}
    IN  IF found = {} THEN None ELSE Some(CHOOSE r \in found : TRUE)

exists(entity_id) == \E r \in Rows : r.id = entity_id

\* criteria: a function from some of the keys to values; a key that is
\* absent or maps to a falsy value filters nothing
Truthy(criteria, key) == key \in DOMAIN criteria /\ criteria[key] # None

find_by_criteria(criteria) ==
    {r \in NotDeleted :
        /\ Truthy(criteria, "status") => r.status = criteria["status"][1]
        /\ Truthy(criteria, "priority") => r.priority = criteria["priority"][1]
        /\ Truthy(criteria, "assigned_to") => r.assigned_to = criteria["assigned_to"]
        /\ Truthy(criteria, "created_by") => r.created_by = criteria["created_by"][1]}

\* rows in storage order, soft-deleted rows filtered out
NotDeletedSeq == SelectSeq(db, LAMBDA r : r.is_deleted # TRUE)

\* query.offset(skip).limit(limit)
Window(rows, skip, limit) ==
    SubSeq(rows, skip + 1, IF skip + limit < Len(rows) THEN skip + limit ELSE Len(rows))

get_all(skip, limit) == Window(NotDeletedSeq, skip, limit)

\* the mapped columns of Task: hasattr(Task, field)
TaskColumns ==
    {"id", "title", "description", "status", "priority", "created_by", "assigned_to",
     "created_at", "updated_at", "due_date", "completed_at", "is_deleted"}

\* filters: a function from field names to column values
count(filters) ==
    Cardinality({r \in NotDeleted :
        \A field \in DOMAIN filters :
            field \in TaskColumns => r[field] = filters[field]})

find_by_status(status) == {r \in Rows : r.status = status /\ r.is_deleted # TRUE}

find_by_user(user_id, include_created, include_assigned) ==
    IF ~include_created /\ ~include_assigned
    THEN {}
    ELSE {r \in Rows :
            /\ \/ include_created /\ r.created_by = user_id
               \/ include_assigned /\ r.assigned_to = Some(user_id)
            /\ r.is_deleted # TRUE}

\* a comparison with a NULL due_date is not true in SQL
find_overdue_tasks ==
    {r \in Rows :
        /\ r.due_date # None /\ r.due_date[1] < now
        /\ r.status \in {PENDING, IN_PROGRESS}
        /\ r.is_deleted # TRUE}

find_high_priority_tasks ==
    {r \in Rows :
        /\ r.priority \in {HIGH, URGENT}
        /\ r.status # COMPLETED
        /\ r.is_deleted # TRUE}

\* column ILIKE '%term%': case-insensitive substring; NULL matches nothing
Contains(text, term) ==
    \E i \in 1..(Len(text) + 1) :
        /\ i + Len(term) - 1 <= Len(text)
        /\ SubSeq(text, i, i + Len(term) - 1) = term
ilike(column, term) == column # None /\ Contains(lower(column[1]), lower(term))

\* the query of get_paginated after its filters, before order_by and the window
get_paginated_query(filters) ==
    {r \in NotDeleted :
        /\ Truthy(filters, "status") => r.status = filters["status"][1]
        /\ Truthy(filters, "priority") => r.priority = filters["priority"][1]
        /\ Truthy(filters, "assigned_to") => r.assigned_to = filters["assigned_to"]
        /\ Truthy(filters, "created_by") => r.created_by = filters["created_by"][1]
        /\ Truthy(filters, "search") =>
              \/ ilike(Some(r.title), filters["search"][1])
              \/ ilike(r.description, filters["search"][1])}

get_paginated_total_count(filters) == Cardinality(get_paginated_query(filters))

search_tasks(search_term, limit) ==
    Window(SelectSeq(db, LAMBDA r :
                /\ ilike(Some(r.title), search_term) \/ ilike(r.description, search_term)
                /\ r.is_deleted # TRUE),
           0, limit)

\* overdue counted without looking at the status (used to test the properties)
get_task_statistics_overdue_any_status ==
    [total_tasks |-> Cardinality(NotDeleted),
     pending_tasks |-> Cardinality({r \in NotDeleted : r.status = PENDING}),
     in_progress_tasks |-> Cardinality({r \in NotDeleted : r.status = IN_PROGRESS}),
     completed_tasks |-> Cardinality({r \in NotDeleted : r.status = COMPLETED}),
     cancelled_tasks |-> Cardinality({r \in NotDeleted : r.status = CANCELLED}),
     high_priority_tasks |-> Cardinality({r \in NotDeleted : r.priority \in {HIGH, URGENT}}),
     overdue_tasks |-> Cardinality({r \in NotDeleted :
                          r.due_date # None /\ r.due_date[1] < now})]

get_task_statistics ==
    [total_tasks |-> Cardinality(NotDeleted),
     pending_tasks |-> Cardinality({r \in NotDeleted : r.status = PENDING}),
     in_progress_tasks |-> Cardinality({r \in NotDeleted : r.status = IN_PROGRESS}),
     completed_tasks |-> Cardinality({r \in NotDeleted : r.status = COMPLETED}),
     cancelled_tasks |-> Cardinality({r \in NotDeleted : r.status = CANCELLED}),
     high_priority_tasks |-> Cardinality({r \in NotDeleted : r.priority \in {HIGH, URGENT}}),
     overdue_tasks |-> Cardinality({r \in NotDeleted :
                          /\ r.due_date # None /\ r.due_date[1] < now
                          /\ r.status \in {PENDING, IN_PROGRESS}})]

\* BaseRepository.update: commit the unit of work holding the loaded entity;
\* the UPDATE is emitted only when a column changed, and stamps updated_at
Commit(entity, t) ==
    IF entity = db[entity.id]
    THEN db
    ELSE [db EXCEPT ![entity.id] = [entity EXCEPT !.updated_at = Some(t)]]

\* ---------------------------------------------------------------- service
NoReq ==
    [title |-> None, description |-> None, priority |-> None, status |-> None,
     assigned_to |-> None, due_date |-> None, created_by |-> None]

Call(op, id, user, req, pre, entity, raised, updated, ret) ==
    [op |-> op, id |-> id, user |-> user, req |-> req, at |-> now, pre |-> pre,
     entity |-> entity, raised |-> raised, updated |-> updated, ret |-> ret]

valid_transitions(current_status) ==
    CASE current_status = PENDING -> {IN_PROGRESS, CANCELLED}
      [] current_status = IN_PROGRESS -> {COMPLETED, PENDING, CANCELLED}
      [] current_status = COMPLETED -> {}
      [] current_status = CANCELLED -> {PENDING}

validate_status_transition(current_status, new_status) ==
    IF new_status \notin valid_transitions(current_status)
    THEN Some(TaskValidationError(
             <<"Invalid status transition from ", current_status.value, " to ",
               new_status.value>>))
    ELSE None

validate_create_request(req, t) ==
    IF req.due_date # None /\ req.due_date[1] < t
    THEN Some(TaskValidationError(<<"Due date cannot be in the past">>))
    ELSE IF req.priority[1] \in {HIGH, URGENT} /\ req.due_date = None
    THEN Some(TaskValidationError(
             <<"High and urgent priority tasks must have a due date">>))
    ELSE IF \E r \in find_by_criteria([created_by |-> req.created_by]) :
                lower(r.title) = lower(req.title[1])
    THEN Some(TaskValidationError(
             <<"Task with title '", req.title[1], "' already exists for this user">>))
    ELSE None

create_task(req) ==
    LET err == validate_create_request(req, now)
        task0 == NewTask(req, Len(db) + 1, now)
        task == IF req.assigned_to # None /\ req.assigned_to[1] # <<>>
                THEN assign_to_user(task0, req.assigned_to[1])
                ELSE task0
    IN  /\ now < MaxTime
        /\ Len(db) < MaxTasks
        /\ now' = now + 1
        /\ UNCHANGED <<users, items, sessions>>
        /\ IF err # None
           THEN /\ db' = db
                /\ last' = Call("create_task", 0, req.created_by, req, None, None,
                                err, FALSE, None)
           ELSE /\ db' = Append(db, task)
                /\ last' = Call("create_task", task.id, req.created_by, req, None,
                                Some(task), None, FALSE, Some(task))

\* _apply_task_updates: the fields are applied in the order of the code, on
\* the loaded entity; a raise leaves the earlier assignments on the entity
apply_task_updates(task, req, t) ==
    LET t1 == IF req.title # None THEN [task EXCEPT !.title = req.title[1]] ELSE task
        t2 == IF req.description # None
              THEN [t1 EXCEPT !.description = req.description] ELSE t1
        t3 == IF req.priority # None
              THEN [t2 EXCEPT !.priority = TaskPriority(req.priority[1].value)] ELSE t2
        t4 == IF req.assigned_to # None
              THEN assign_to_user(t3, req.assigned_to[1]) ELSE t3
        t5 == IF req.due_date # None THEN [t4 EXCEPT !.due_date = req.due_date] ELSE t4
        new_status == TaskStatus(req.status[1].value)
        invalid == validate_status_transition(t5.status, new_status)
        t6 == [t5 EXCEPT !.status = new_status]
        t7 == IF req.status[1].value = COMPLETED.value
              THEN mark_as_completed(t6, t) ELSE t6
    IN  IF req.due_date # None /\ req.due_date[1] < t
        THEN [task |-> t4,
              raised |-> Some(TaskValidationError(<<"Due date cannot be in the past">>))]
        ELSE IF req.status = None
        THEN [task |-> t5, raised |-> None]
        ELSE IF invalid # None
        THEN [task |-> t5, raised |-> invalid]
        ELSE [task |-> t7, raised |-> None]

\* anyone may modify a task that has an assignee (used to test the properties)
can_user_modify_task_when_assigned(task, user_id) ==
    task.created_by = user_id \/ task.assigned_to # None

can_user_modify_task(task, user_id) ==
    task.created_by = user_id \/ task.assigned_to = Some(user_id)

update_task(task_id, req, requesting_user) ==
    LET found == get_by_id(task_id)
        task == found[1]
        applied == apply_task_updates(task, req, now)
        call(entity, raised, updated, ret) ==
            Call("update_task", task_id, Some(requesting_user), req, found, entity,
                 raised, updated, ret)
    IN  /\ now < MaxTime
        /\ now' = now + 1
        /\ UNCHANGED <<users, items, sessions>>
        /\ IF found = None
           THEN /\ db' = db
                /\ last' = call(None, Some(TaskNotFoundError(task_id)), FALSE, None)
           ELSE IF ~can_user_modify_task(task, requesting_user)
           THEN /\ db' = db
                /\ last' = call(found, Some(UnauthorizedOperationError(
                                <<"User not authorized to modify this task">>)),
                                FALSE, None)
           ELSE IF ~can_be_edited(task)
           THEN /\ db' = db
                /\ last' = call(found, Some(TaskValidationError(
                                <<"Cannot edit completed or cancelled tasks">>)),
                                FALSE, None)
           ELSE IF applied.raised # None
           THEN /\ db' = db
                /\ last' = call(Some(applied.task), applied.raised, FALSE, None)
           ELSE /\ db' = Commit(applied.task, now)
                /\ last' = call(Some(db'[task_id]), None, TRUE, Some(db'[task_id]))

complete_task(task_id, requesting_user) ==
    LET found == get_by_id(task_id)
        task == found[1]
        call(entity, raised, updated, ret) ==
            Call("complete_task", task_id, Some(requesting_user), NoReq, found, entity,
                 raised, updated, ret)
    IN  /\ now < MaxTime
        /\ now' = now + 1
        /\ UNCHANGED <<users, items, sessions>>
        /\ IF found = None
           THEN /\ db' = db
                /\ last' = call(None, Some(TaskNotFoundError(task_id)), FALSE, None)
           ELSE IF ~can_user_modify_task(task, requesting_user)
           THEN /\ db' = db
                /\ last' = call(found, Some(UnauthorizedOperationError(
                                <<"User not authorized to complete this task">>)),
                                FALSE, None)
           ELSE /\ db' = Commit(mark_as_completed(task, now), now)
                /\ last' = call(Some(db'[task_id]), None, TRUE, Some(db'[task_id]))

assign_task(task_id, assignee_id, requesting_user) ==
    LET found == get_by_id(task_id)
        task == found[1]
        call(entity, raised, updated, ret) ==
            Call("assign_task", task_id, Some(requesting_user),
                 [NoReq EXCEPT !.assigned_to = Some(assignee_id)], found, entity,
                 raised, updated, ret)
    IN  /\ now < MaxTime
        /\ now' = now + 1
        /\ UNCHANGED <<users, items, sessions>>
        /\ IF found = None
           THEN /\ db' = db
                /\ last' = call(None, Some(TaskNotFoundError(task_id)), FALSE, None)
           ELSE IF task.created_by # requesting_user
           THEN /\ db' = db
                /\ last' = call(found, Some(UnauthorizedOperationError(
                                <<"Only task creator can assign tasks">>)), FALSE, None)
           ELSE /\ db' = Commit(assign_to_user(task, assignee_id), now)
                /\ last' = call(Some(db'[task_id]), None, TRUE, Some(db'[task_id]))

\* a delete that also clears the assignee (used to test the properties)
delete_clears_assignee(entity_id) ==
    LET found == get_by_id(entity_id)
    IN  IF found = None
        THEN db
        ELSE [db EXCEPT ![entity_id] =
                 [@ EXCEPT !.is_deleted = TRUE, !.assigned_to = None,
                           !.updated_at = Some(now)]]

\* BaseRepository.delete: soft delete of the row get_by_id finds
delete(entity_id) ==
    LET found == get_by_id(entity_id)
    IN  IF found = None
        THEN db
        ELSE [db EXCEPT ![entity_id] =
                 [@ EXCEPT !.is_deleted = TRUE, !.updated_at = Some(now)]]

delete_task(task_id, requesting_user) ==
    LET found == get_by_id(task_id)
        task == found[1]
        call(entity, raised, updated, ret) ==
            Call("delete_task", task_id, Some(requesting_user), NoReq, found, entity,
                 raised, updated, ret)
    IN  /\ now < MaxTime
        /\ now' = now + 1
        /\ UNCHANGED <<users, items, sessions>>
        /\ IF found = None
           THEN /\ db' = db
                /\ last' = call(None, Some(TaskNotFoundError(task_id)), FALSE, None)
           ELSE IF task.created_by # requesting_user
           THEN /\ db' = db
                /\ last' = call(found, Some(UnauthorizedOperationError(
                                <<"Only task creator can delete tasks">>)), FALSE, None)
           ELSE IF task.status = COMPLETED
           THEN /\ db' = db
                /\ last' = call(found, Some(TaskValidationError(
                                <<"Cannot delete completed tasks">>)), FALSE, None)
           ELSE /\ db' = delete(task_id)
                /\ last' = call(Some(db'[task_id]), None, FALSE, Some(TRUE))

\* ------------------------------------------------- the requests considered
Users == {<<"u", "1">>, <<"u", "2">>}
Titles == {<<"a">>, <<"b">>}
TaskIds == 1..MaxTasks
StoredIds == 1..Len(db)
Opt(S) == {None} \cup {Some(x) : x \in S}

CreateRequests ==
    {[title |-> Some(ti), description |-> None, priority |-> Some(TaskPriorityDTO(p)),
      status |-> None, assigned_to |-> a, due_date |-> d, created_by |-> Some(c)] :
        ti \in Titles, p \in {"urgent"}, a \in Opt({<<"u", "2">>}),
        d \in Opt({now - 1, now + 1}), c \in {<<"u", "1">>}}

\* update requests: no field, one field, or a status with one other field
OneField ==
    {[NoReq EXCEPT !.title = Some(<<"A">>)], [NoReq EXCEPT !.description = Some(<<"d">>)],
     [NoReq EXCEPT !.priority = Some(TaskPriorityDTO("low"))]}
    \cup {[NoReq EXCEPT !.assigned_to = Some(u)] : u \in {<<"u", "2">>}}
    \cup {[NoReq EXCEPT !.due_date = Some(d)] : d \in {now - 1, now + 1}}
StatusOnly == {[NoReq EXCEPT !.status = Some(TaskStatusDTO(v))] : v \in StatusValues}
UpdateRequests ==
    {NoReq} \cup OneField \cup StatusOnly
    \cup {[o EXCEPT !.status = s.status] : o \in OneField, s \in StatusOnly}

Tick ==
    /\ now < MaxTime
    /\ now' = now + 1
    /\ UNCHANGED <<db, last, users, items, sessions>>

Init ==
    /\ db = <<>>
    /\ now = 0
    /\ last = Call("init", 0, None, NoReq, None, None, None, FALSE, None)
    /\ users = <<>>
    /\ items = <<>>
    /\ sessions = <<>>

Next ==
    \/ \E req \in CreateRequests : create_task(req)
    \/ \E i \in StoredIds, req \in UpdateRequests, u \in Users : update_task(i, req, u)
    \/ \E i \in TaskIds, u \in Users : complete_task(i, u)
    \/ \E i \in TaskIds, a \in Users, u \in Users : assign_task(i, a, u)
    \/ \E i \in TaskIds, u \in Users : delete_task(i, u)
    \/ Tick

Spec == Init /\ [][Next]_vars

\* ------------------------------------------------------------- pagination
\* le=100 of TaskQueryParams.size and UserQueryParams.size
MaxSize == 100

ASC == <<"a", "s", "c">>
DESC == <<"d", "e", "s", "c">>

\* every order the rows of a query can be listed in
Perms(S) ==
    {f \in [1..Cardinality(S) -> S] : \A i, j \in 1..Cardinality(S) : i # j => f[i] # f[j]}

\* the value ORDER BY compares for the columns the requests sort on; MySQL
\* lists NULL before every value when ascending and after when descending
SortKey(r, sort_by) ==
    CASE sort_by = "id" -> r.id
      [] sort_by = "created_at" -> r.created_at
      [] OTHER -> IF r[sort_by] = None THEN 0 - 1 ELSE r[sort_by][1]

\* query.order_by(asc(column)) / order_by(desc(column)): the server is free to
\* list rows with equal keys in any order, and may do so differently from one
\* statement to the next
Sorted(rows, sort_by, descending) ==
    \A i, j \in 1..Len(rows) : i < j =>
        IF descending
        THEN SortKey(rows[i], sort_by) >= SortKey(rows[j], sort_by)
        ELSE SortKey(rows[i], sort_by) <= SortKey(rows[j], sort_by)

\* "Apply sorting": ordered only when the class has the attribute; a query
\* without ORDER BY lists its rows in an order the server chooses
order_by(query, columns, sort_by, sort_order) ==
    IF sort_by \in columns
    THEN {rows \in Perms(query) : Sorted(rows, sort_by, lower(sort_order) = DESC)}
    ELSE Perms(query)

\* total_count read after pagination, from the page (used to test the properties)
get_paginated_counts_page(page, size, filters, sort_by, sort_order) ==
    {[tasks |-> Window(rows, (page - 1) * size, size),
      total_count |-> Len(Window(rows, (page - 1) * size, size))] :
        rows \in order_by(get_paginated_query(filters), TaskColumns, sort_by, sort_order)}

\* limit(size + 1) in place of limit(size) (used to test the properties)
get_paginated_one_more(page, size, filters, sort_by, sort_order) ==
    {[tasks |-> Window(rows, (page - 1) * size, size + 1),
      total_count |-> get_paginated_total_count(filters)] :
        rows \in order_by(get_paginated_query(filters), TaskColumns, sort_by, sort_order)}

\* TaskRepository.get_paginated: the (tasks, total_count) pairs it can return
get_paginated(page, size, filters, sort_by, sort_order) ==
    LET query == get_paginated_query(filters)
        total_count == get_paginated_total_count(filters)
        offset == (page - 1) * size
    IN  {[tasks |-> Window(rows, offset, size), total_count |-> total_count] :
            rows \in order_by(query, TaskColumns, sort_by, sort_order)}

\* a falsy query parameter (None or "") adds no filter
Given(param) == param # None /\ param[1] # <<>>

build_filters_from_query(query_params, requesting_user) ==
    (IF Given(query_params.status)
     THEN [status |-> Some(TaskStatus(query_params.status[1].value))] ELSE <<>>)
    @@ (IF Given(query_params.priority)
        THEN [priority |-> Some(TaskPriority(query_params.priority[1].value))] ELSE <<>>)
    @@ (IF Given(query_params.assigned_to)
        THEN [assigned_to |-> query_params.assigned_to] ELSE <<>>)
    @@ (IF Given(query_params.created_by)
        THEN [created_by |-> query_params.created_by]
        ELSE [user_access |-> Some(requesting_user)])

\* Field(ge=1), Field(ge=1, le=100), Field(pattern="^(asc|desc)$"): the
\* constraints of TaskQueryParams / UserQueryParams and of the Query(...)
\* parameters of the route, which reject the request before the service runs
ValidationError(loc) == [type |-> "ValidationError", msg |-> <<loc>>]

validate_query_params_no_size_cap(q) ==
    IF q.page < 1 THEN Some(ValidationError("page"))
    ELSE IF q.size < 1 THEN Some(ValidationError("size"))
    ELSE IF q.sort_order \notin {ASC, DESC} THEN Some(ValidationError("sort_order"))
    ELSE None

validate_query_params(q) ==
    IF q.page < 1 THEN Some(ValidationError("page"))
    ELSE IF q.size < 1 \/ q.size > MaxSize THEN Some(ValidationError("size"))
    ELSE IF q.sort_order \notin {ASC, DESC} THEN Some(ValidationError("sort_order"))
    ELSE None

\* total_pages rounded down (used to test the properties)
TaskListResponse_pages_rounded_down(tasks, total_count, page, size) ==
    [tasks |-> tasks, total |-> total_count, page |-> page, size |-> size,
     total_pages |-> total_count \div size,
     has_next |-> page < total_count \div size,
     has_previous |-> page > 1]

\* "Calculate pagination metadata" and the response of get_tasks_paginated
TaskListResponse(tasks, total_count, page, size) ==
    LET total_pages == (total_count + size - 1) \div size
    IN  [tasks |-> tasks, total |-> total_count, page |-> page, size |-> size,
         total_pages |-> total_pages,
         has_next |-> page < total_pages,
         has_previous |-> page > 1]

\* the pages 1..k requested one after the other with the same parameters,
\* put end to end: kept beside the call so that a whole listing can be judged
SameListing(p, q) == [p EXCEPT !.page = 0] = [q EXCEPT !.page = 0]

Walk(op, q, page_items) ==
    IF q.page = 1
    THEN Some([page |-> 1, items |-> page_items])
    ELSE IF /\ last.op = op /\ last.raised = None /\ last.walk # None
            /\ SameListing(last.req, q) /\ q.page = last.walk[1].page + 1
    THEN Some([page |-> q.page, items |-> last.walk[1].items \o page_items])
    ELSE None

PageCall(op, user, req, raised, ret, walk) ==
    [op |-> op, id |-> 0, user |-> user, req |-> req, at |-> now, pre |-> None,
     entity |-> None, raised |-> raised, updated |-> FALSE, ret |-> ret, walk |-> walk]

\* current_user of the task routes and of the user routes
DemoUser == <<"d", "e", "m", "o">>
AdminUser == <<"a", "d", "m", "i", "n">>

\* GET /tasks: the route validates the query string, then
\* TaskService.get_tasks_paginated builds the filters, reads one page and
\* computes the metadata; nothing is written
get_tasks(q) ==
    LET err == validate_query_params(q)
        filters == build_filters_from_query(q, DemoUser)
    IN  /\ UNCHANGED <<db, now, users, items, sessions>>
        /\ IF err # None
           THEN last' = PageCall("get_tasks", Some(DemoUser), q, err, None, None)
           ELSE \E got \in get_paginated(q.page, q.size, filters, q.sort_by, q.sort_order) :
                   last' = PageCall("get_tasks", Some(DemoUser), q, None,
                                    Some(TaskListResponse(got.tasks, got.total_count,
                                                          q.page, q.size)),
                                    Walk("get_tasks", q, got.tasks))

\* ------------------------------------------------------------ User entity
UserRole(v) == [enum |-> "UserRole", value |-> v]
UserStatus(v) == [enum |-> "UserStatus", value |-> v]
UserRoleDTO(v) == [enum |-> "UserRoleDTO", value |-> v]
UserStatusDTO(v) == [enum |-> "UserStatusDTO", value |-> v]

ADMIN == UserRole("admin")
ACTIVE == UserStatus("active")

UserNotFoundError(user_id) ==
    [type |-> "UserNotFoundError",
     msg |-> <<"User with ID ", ToString(user_id), " not found">>]
UserValidationError(m) == [type |-> "UserValidationError", msg |-> m]
UnauthorizedUserOperationError(m) == [type |-> "UnauthorizedUserOperationError", msg |-> m]
\* raised by the commit when a UNIQUE index of table "users" is violated
IntegrityError(column) == [type |-> "IntegrityError", msg |-> <<"Duplicate entry", column>>]

is_admin(user) == user.role = ADMIN

\* sha256 of the password: only equality of hashes matters
hash_password(password) == <<"sha256">> \o password

\* User(...) as create_user builds it, then INSERTed with the column defaults
NewUser(req, id, t) ==
    [id |-> id,
     username |-> req.username,
     email |-> req.email,
     full_name |-> req.full_name,
     password_hash |-> hash_password(req.password),
     role |-> UserRole(req.role.value),
     status |-> ACTIVE,
     created_at |-> t,
     updated_at |-> None,
     last_login |-> None,
     is_deleted |-> FALSE,
     email_verified |-> FALSE]

\* --------------------------------------------------------- UserRepository
UserRows == {users[i] : i \in 1..Len(users)}
UsersNotDeleted == {r \in UserRows : r.is_deleted # TRUE}

user_get_by_id(entity_id) ==
    LET found == {r \in UserRows : r.id = entity_id /\ r.is_deleted # TRUE}
    IN  IF found = {} THEN None ELSE Some(CHOOSE r \in found : TRUE)

\* .first() of the matching rows; the UNIQUE indexes leave at most one
find_by_username(username) ==
    LET found == {r \in UserRows : r.username = username /\ r.is_deleted # TRUE}
    IN  IF found = {} THEN None ELSE Some(CHOOSE r \in found : TRUE)

find_by_email(email) ==
    LET found == {r \in UserRows : r.email = email /\ r.is_deleted # TRUE}
    IN  IF found = {} THEN None ELSE Some(CHOOSE r \in found : TRUE)

\* unique=True of User.username and User.email: the index covers every row
\* of the table, soft-deleted ones included
UniqueViolation(rows) ==
    IF \E i, j \in 1..Len(rows) : i # j /\ rows[i].username = rows[j].username
    THEN Some(IntegrityError("username"))
    ELSE IF \E i, j \in 1..Len(rows) : i # j /\ rows[i].email = rows[j].email
    THEN Some(IntegrityError("email"))
    ELSE None

UserColumns ==
    {"id", "username", "email", "full_name", "password_hash", "role", "status",
     "created_at", "updated_at", "last_login", "is_deleted", "email_verified"}

user_get_paginated_query(filters) ==
    {r \in UsersNotDeleted :
        /\ Truthy(filters, "role") => r.role = filters["role"][1]
        /\ Truthy(filters, "status") => r.status = filters["status"][1]
        /\ Truthy(filters, "search") =>
              \/ ilike(Some(r.username), filters["search"][1])
              \/ ilike(Some(r.full_name), filters["search"][1])
              \/ ilike(Some(r.email), filters["search"][1])}

\* UserRepository.get_paginated: the (users, total_count) pairs it can return
user_get_paginated(page, size, filters, sort_by, sort_order) ==
    LET query == user_get_paginated_query(filters)
        total_count == Cardinality(query)
        offset == (page - 1) * size
    IN  {[users |-> Window(rows, offset, size), total_count |-> total_count] :
            rows \in order_by(query, UserColumns, sort_by, sort_order)}

user_build_filters_from_query(query_params) ==
    (IF Given(query_params.role)
     THEN [role |-> Some(UserRole(query_params.role[1].value))] ELSE <<>>)
    @@ (IF Given(query_params.status)
        THEN [status |-> Some(UserStatus(query_params.status[1].value))] ELSE <<>>)
    @@ (IF Given(query_params.search)
        THEN [search |-> query_params.search] ELSE <<>>)

UserListResponse(rows, total_count, page, size) ==
    LET total_pages == (total_count + size - 1) \div size
    IN  [users |-> rows, total |-> total_count, page |-> page, size |-> size,
         total_pages |-> total_pages,
         has_next |-> page < total_pages,
         has_previous |-> page > 1]

\* GET /users: as GET /tasks, over table "users"
get_users(q) ==
    LET err == validate_query_params(q)
        filters == user_build_filters_from_query(q)
    IN  /\ UNCHANGED <<db, now, users, items, sessions>>
        /\ IF err # None
           THEN last' = PageCall("get_users", Some(AdminUser), q, err, None, None)
           ELSE \E got \in user_get_paginated(q.page, q.size, filters, q.sort_by,
                                              q.sort_order) :
                   last' = PageCall("get_users", Some(AdminUser), q, None,
                                    Some(UserListResponse(got.users, got.total_count,
                                                          q.page, q.size)),
                                    Walk("get_users", q, got.users))

\* ------------------------------------------- the listings and tables tried
MaxRows == 2

U1 == <<"u", "1">>
U2 == <<"u", "2">>

\* what became of a stored task after its creation: left alone, completed,
\* edited or soft-deleted, at one of two later instants
TaskKinds ==
    {[status |-> PENDING, created_by |-> U1, updated_at |-> None, is_deleted |-> FALSE],
     [status |-> PENDING, created_by |-> U2, updated_at |-> None, is_deleted |-> FALSE],
     [status |-> COMPLETED, created_by |-> U1, updated_at |-> Some(MaxRows + 1),
      is_deleted |-> FALSE],
     [status |-> PENDING, created_by |-> U1, updated_at |-> Some(MaxRows),
      is_deleted |-> FALSE],
     [status |-> PENDING, created_by |-> U1, updated_at |-> Some(MaxRows),
      is_deleted |-> TRUE]}

\* the row with this id: created at instant id - 1, then changed as `kind` says
TaskOfKind(id, kind) ==
    [NewTask([NoReq EXCEPT !.title = Some(<<"t", ToString(id)>>),
                           !.priority = Some(TaskPriorityDTO("medium")),
                           !.created_by = Some(kind.created_by)], id, id - 1)
     EXCEPT !.status = kind.status,
            !.updated_at = kind.updated_at,
            !.completed_at = IF kind.status = COMPLETED THEN kind.updated_at ELSE None,
            !.is_deleted = kind.is_deleted]

TaskCollections ==
    UNION {{[i \in 1..n |-> TaskOfKind(i, kinds[i])] : kinds \in [1..n -> TaskKinds]} :
              n \in 0..MaxRows}

UserKinds ==
    {[role |-> ADMIN, status |-> ACTIVE, updated_at |-> None, is_deleted |-> FALSE],
     [role |-> UserRole("user"), status |-> ACTIVE, updated_at |-> None,
      is_deleted |-> FALSE],
     [role |-> UserRole("user"), status |-> UserStatus("inactive"),
      updated_at |-> Some(MaxRows), is_deleted |-> FALSE],
     [role |-> UserRole("user"), status |-> ACTIVE, updated_at |-> Some(MaxRows + 1),
      is_deleted |-> TRUE]}

UserOfKind(id, kind) ==
    [NewUser([username |-> <<"u", ToString(id)>>, email |-> <<"e", ToString(id)>>,
              full_name |-> <<"n">>, password |-> <<"p">>,
              role |-> UserRoleDTO(kind.role.value)], id, id - 1)
     EXCEPT !.status = kind.status,
            !.updated_at = kind.updated_at,
            !.is_deleted = kind.is_deleted]

UserCollections ==
    UNION {{[i \in 1..n |-> UserOfKind(i, kinds[i])] : kinds \in [1..n -> UserKinds]} :
              n \in 1..MaxRows}

Pages == 1..(MaxRows + 1)
Sizes == {1, 2, MaxSize}
SortBys == {"created_at", "updated_at", "no_such_field"}

NoTaskQuery ==
    [status |-> None, priority |-> None, assigned_to |-> None, created_by |-> None,
     page |-> 1, size |-> 1, sort_by |-> "created_at", sort_order |-> DESC]

TaskListings ==
    {NoTaskQuery, [NoTaskQuery EXCEPT !.status = Some(TaskStatusDTO("pending"))],
     [NoTaskQuery EXCEPT !.created_by = Some(U1)]}

NoUserQuery ==
    [role |-> None, status |-> None, search |-> None,
     page |-> 1, size |-> 1, sort_by |-> "created_at", sort_order |-> DESC]

UserListings ==
    {NoUserQuery, [NoUserQuery EXCEPT !.role = Some(UserRoleDTO("user"))],
     [NoUserQuery EXCEPT !.search = Some(<<"U", "1">>)]}

\* requests the route accepts, and requests with one parameter out of range
Paged(listings) ==
    {[q EXCEPT !.page = p, !.size = sz, !.sort_by = sb, !.sort_order = so] :
        q \in listings, p \in Pages, sz \in Sizes, sb \in SortBys, so \in {ASC, DESC}}

OutOfRange(q) ==
    {[q EXCEPT !.page = 0], [q EXCEPT !.size = 0], [q EXCEPT !.size = MaxSize + 1],
     [q EXCEPT !.sort_order = <<"D", "E", "S", "C">>],
     [q EXCEPT !.sort_order = <<"u", "p">>]}

TaskQueries == Paged(TaskListings) \cup OutOfRange(NoTaskQuery)
UserQueries == Paged(UserListings) \cup OutOfRange(NoUserQuery)

InitCall == Call("init", 0, None, NoReq, None, None, None, FALSE, None) @@ [walk |-> None]

PageInit ==
    /\ \/ db \in TaskCollections /\ users = <<>>
       \/ db = <<>> /\ users \in UserCollections
    /\ now = MaxRows + 2
    /\ last = InitCall
    /\ items = <<>>
    /\ sessions = <<>>

\* the client: it asks for page 1 of a listing, then for the pages after it
\* with the same parameters; the tables do not change meanwhile
Turns(op, q) ==
    \/ last.op = "init"
    \/ /\ last.op = op /\ last.raised = None
       /\ SameListing(last.req, q) /\ q.page = last.req.page + 1

PageNext ==
    \/ \E q \in TaskQueries : Turns("get_tasks", q) /\ get_tasks(q)
    \/ \E q \in UserQueries : Turns("get_users", q) /\ get_users(q)

PageSpec == PageInit /\ [][PageNext]_vars

\* -------------------------------------------------------------- statistics
\* high_priority counted as find_high_priority_tasks does, without the
\* completed tasks (used to test the properties)
calculate_user_stats_open_high_priority(tasks, t) ==
    [total_tasks |-> Len(tasks),
     pending_tasks |-> Len(SelectSeq(tasks, LAMBDA r : r.status = PENDING)),
     in_progress_tasks |-> Len(SelectSeq(tasks, LAMBDA r : r.status = IN_PROGRESS)),
     completed_tasks |-> Len(SelectSeq(tasks, LAMBDA r : r.status = COMPLETED)),
     cancelled_tasks |-> Len(SelectSeq(tasks, LAMBDA r : r.status = CANCELLED)),
     overdue_tasks |-> Len(SelectSeq(tasks, LAMBDA r : is_overdue(r, t))),
     high_priority_tasks |->
         Len(SelectSeq(tasks, LAMBDA r : r.priority \in {HIGH, URGENT} /\ r.status # COMPLETED))]

\* TaskService._calculate_user_stats, is_overdue reading the clock at t;
\* sum(1 for t in tasks if ...) is the length of the selected sublist
calculate_user_stats(tasks, t) ==
    [total_tasks |-> Len(tasks),
     pending_tasks |-> Len(SelectSeq(tasks, LAMBDA r : r.status = PENDING)),
     in_progress_tasks |-> Len(SelectSeq(tasks, LAMBDA r : r.status = IN_PROGRESS)),
     completed_tasks |-> Len(SelectSeq(tasks, LAMBDA r : r.status = COMPLETED)),
     cancelled_tasks |-> Len(SelectSeq(tasks, LAMBDA r : r.status = CANCELLED)),
     overdue_tasks |-> Len(SelectSeq(tasks, LAMBDA r : is_overdue(r, t))),
     high_priority_tasks |-> Len(SelectSeq(tasks, LAMBDA r : r.priority \in {HIGH, URGENT}))]

\* query.all(): the rows of a query as a list
AsList(query) == SelectSeq(db, LAMBDA r : r \in query)

\* TaskService.get_task_statistics: a truthy user_id takes the per-user
\* path, None or "" the global one (GET /tasks/stats/overview always passes
\* a user: user_id or current_user)
task_statistics(user_id) ==
    IF Given(user_id)
    THEN calculate_user_stats(AsList(find_by_user(user_id[1], TRUE, TRUE)), now)
    ELSE get_task_statistics

service_get_task_statistics(user_id) ==
    /\ UNCHANGED <<db, now, users, items, sessions>>
    /\ last' = Call("get_task_statistics", 0, user_id, NoReq, None, None, None, FALSE,
                    Some(task_statistics(user_id)))

\* a stored task of each status, with and without a due date, high priority
\* or not, created by and assigned to either user, deleted or not
StatsKinds ==
    {[status |-> PENDING, priority |-> URGENT, due |-> Some(0), created_by |-> U1,
      assigned_to |-> None, is_deleted |-> FALSE],
     [status |-> IN_PROGRESS, priority |-> TaskPriority("low"), due |-> Some(MaxRows + 3),
      created_by |-> U1, assigned_to |-> Some(U2), is_deleted |-> FALSE],
     [status |-> COMPLETED, priority |-> URGENT, due |-> Some(0), created_by |-> U2,
      assigned_to |-> Some(U1), is_deleted |-> FALSE],
     [status |-> CANCELLED, priority |-> HIGH, due |-> None, created_by |-> U2,
      assigned_to |-> None, is_deleted |-> FALSE],
     [status |-> IN_PROGRESS, priority |-> TaskPriority("medium"), due |-> Some(0),
      created_by |-> U1, assigned_to |-> Some(U1), is_deleted |-> FALSE],
     [status |-> PENDING, priority |-> HIGH, due |-> Some(0), created_by |-> U1,
      assigned_to |-> None, is_deleted |-> TRUE]}

StatsTaskOfKind(id, kind) ==
    [NewTask([NoReq EXCEPT !.title = Some(<<"t", ToString(id)>>),
                           !.priority = Some(TaskPriorityDTO(kind.priority.value)),
                           !.assigned_to = kind.assigned_to,
                           !.due_date = kind.due,
                           !.created_by = Some(kind.created_by)], id, id - 1)
     EXCEPT !.status = kind.status,
            !.updated_at = IF kind.status = PENDING /\ ~kind.is_deleted
                           THEN None ELSE Some(MaxRows),
            !.completed_at = IF kind.status = COMPLETED THEN Some(MaxRows) ELSE None,
            !.is_deleted = kind.is_deleted]

StatsCollections ==
    UNION {{[i \in 1..n |-> StatsTaskOfKind(i, kinds[i])] : kinds \in [1..n -> StatsKinds]} :
              n \in 0..MaxRows}

StatsUsers == {None, Some(<<>>), Some(U1), Some(U2), Some(DemoUser)}

StatsInit ==
    /\ db \in StatsCollections
    /\ now = MaxRows + 2
    /\ last = Call("init", 0, None, NoReq, None, None, None, FALSE, None)
    /\ users = <<>>
    /\ items = <<>>
    /\ sessions = <<>>

StatsNext == \E user_id \in StatsUsers : service_get_task_statistics(user_id)

StatsSpec == StatsInit /\ [][StatsNext]_vars

\* -------------------------------------------------------------- task items
\* Table "task_items", mapped by Flask_API (TaskItem, TaskItemService) and by
\* Django_API (TaskItem with its own save()).  items[i] is Some(row) for the
\* row with id = i and None once the row has been deleted.
MaxItems == 2

ItemIds == 1..MaxItems

\* TaskItem.query.get(item_id)
item_get(item_id) == IF item_id \in 1..Len(items) THEN items[item_id] ELSE None

\* db.session.commit() of a loaded item: onupdate stamps updated_at when a
\* column changed
item_commit(item, t) ==
    IF Some(item) = items[item.id]
    THEN items
    ELSE [items EXCEPT ![item.id] = Some([item EXCEPT !.updated_at = t])]

\* TaskItemService.create_task_item: the column defaults fill the rest
create_task_item(title, task_id, description, order) ==
    LET item == [id |-> Len(items) + 1, title |-> title, description |-> description,
                 is_completed |-> FALSE, order |-> order, created_at |-> now,
                 updated_at |-> now, completed_at |-> None, task_id |-> task_id]
    IN  /\ now < MaxTime
        /\ Len(items) < MaxItems
        /\ items' = Append(items, Some(item))
        /\ now' = now + 1
        /\ last' = Call("create_task_item", item.id, None, NoReq, None, Some(item), None,
                        FALSE, Some(item))
        /\ UNCHANGED <<db, users, sessions>>

\* setattr(item, key, value) for every key of kwargs that is an attribute of
\* the item, "id" excepted
set_attributes(item, kwargs) ==
    [key \in DOMAIN item |->
        IF key \in DOMAIN kwargs /\ key # "id" THEN kwargs[key] ELSE item[key]]

update_task_item(item_id, kwargs) ==
    LET found == item_get(item_id)
        item == set_attributes(found[1], kwargs)
    IN  /\ now < MaxTime
        /\ now' = now + 1
        /\ UNCHANGED <<db, users, sessions>>
        /\ IF found = None
           THEN /\ items' = items
                /\ last' = Call("update_task_item", item_id, None, kwargs, None, None,
                                None, FALSE, None)
           ELSE /\ items' = item_commit(item, now)
                /\ last' = Call("update_task_item", item_id, None, kwargs, found,
                                items'[item_id], None, TRUE, items'[item_id])

delete_task_item(item_id) ==
    LET found == item_get(item_id)
    IN  /\ now < MaxTime
        /\ now' = now + 1
        /\ UNCHANGED <<db, users, sessions>>
        /\ items' = IF found = None THEN items ELSE [items EXCEPT ![item_id] = None]
        /\ last' = Call("delete_task_item", item_id, None, NoReq, found, None, None,
                        FALSE, Some(found # None))

complete_task_item(item_id) ==
    LET found == item_get(item_id)
        item == [found[1] EXCEPT !.is_completed = TRUE, !.completed_at = Some(now)]
    IN  /\ now < MaxTime
        /\ now' = now + 1
        /\ UNCHANGED <<db, users, sessions>>
        /\ IF found = None
           THEN /\ items' = items
                /\ last' = Call("complete_task_item", item_id, None, NoReq, None, None,
                                None, FALSE, None)
           ELSE /\ items' = item_commit(item, now)
                /\ last' = Call("complete_task_item", item_id, None, NoReq, found,
                                items'[item_id], None, TRUE, items'[item_id])

uncomplete_task_item(item_id) ==
    LET found == item_get(item_id)
        item == [found[1] EXCEPT !.is_completed = FALSE, !.completed_at = None]
    IN  /\ now < MaxTime
        /\ now' = now + 1
        /\ UNCHANGED <<db, users, sessions>>
        /\ IF found = None
           THEN /\ items' = items
                /\ last' = Call("uncomplete_task_item", item_id, None, NoReq, None, None,
                                None, FALSE, None)
           ELSE /\ items' = item_commit(item, now)
                /\ last' = Call("uncomplete_task_item", item_id, None, NoReq, found,
                                items'[item_id], None, TRUE, items'[item_id])

\* item_orders: a function from item ids to new order values; an item of
\* another task, or a missing one, is skipped
reorder_items(task_id, item_orders) ==
    /\ now < MaxTime
    /\ now' = now + 1
    /\ UNCHANGED <<db, users, sessions>>
    /\ items' = [i \in 1..Len(items) |->
                    IF /\ i \in DOMAIN item_orders /\ items[i] # None
                       /\ items[i][1].task_id = task_id
                       /\ items[i][1].order # item_orders[i]
                    THEN Some([items[i][1] EXCEPT !.order = item_orders[i],
                                                  !.updated_at = now])
                    ELSE items[i]]
    /\ last' = Call("reorder_items", task_id, None, item_orders, None, None, None,
                    items' # items, Some(TRUE))

\* Django_API TaskItem.save(): completed_at follows is_completed, then the row
\* is written (auto_now stamps updated_at)
TaskItem_save(item, t) ==
    [item EXCEPT !.completed_at =
                     IF item.is_completed /\ item.completed_at = None THEN Some(t)
                     ELSE IF ~item.is_completed THEN None
                     ELSE @,
                 !.updated_at = t]

\* a Django caller loads the row, sets is_completed and saves it
django_save(item_id, is_completed) ==
    LET found == item_get(item_id)
        item == TaskItem_save([found[1] EXCEPT !.is_completed = is_completed], now)
    IN  /\ now < MaxTime
        /\ found # None
        /\ now' = now + 1
        /\ UNCHANGED <<db, users, sessions>>
        /\ items' = [items EXCEPT ![item_id] = Some(item)]
        /\ last' = Call("TaskItem.save", item_id, None, NoReq, found, Some(item), None,
                        TRUE, Some(item))

\* the bodies PUT /task-items/<id> is tried with
ItemUpdates ==
    {[is_completed |-> TRUE], [is_completed |-> FALSE],
     [title |-> <<"b">>, id |-> MaxItems + 1], [order |-> 1, colour |-> <<"c">>]}

ItemOrders == {[i \in S |-> MaxItems - i] : S \in {{1}, ItemIds}}

ItemInit ==
    /\ items = <<>>
    /\ sessions = <<>>
    /\ now = 0
    /\ last = Call("init", 0, None, NoReq, None, None, None, FALSE, None)
    /\ db = <<>>
    /\ users = <<>>

ItemNext ==
    \/ \E task_id \in {1, 2} : create_task_item(<<"a">>, task_id, None, 0)
    \/ \E i \in ItemIds, kwargs \in ItemUpdates : update_task_item(i, kwargs)
    \/ \E i \in ItemIds : delete_task_item(i)
    \/ \E i \in ItemIds : complete_task_item(i)
    \/ \E i \in ItemIds : uncomplete_task_item(i)
    \/ \E item_orders \in ItemOrders : reorder_items(1, item_orders)
    \/ \E i \in ItemIds, is_completed \in BOOLEAN : django_save(i, is_completed)

ItemSpec == ItemInit /\ [][ItemNext]_vars

\* ------------------------------------------------------------ UserService
MaxUsers == 2
MaxCalls == 4

NoUserReq == [full_name |-> None, email |-> None, role |-> None, status |-> None]

\* _validate_create_request; UserRoleDTO.ADMIN is not UserRole.ADMIN, so the
\* comparison of the last rule is false for every request
user_validate_create_request(req, requesting_user) ==
    IF find_by_username(req.username) # None
    THEN Some(UserValidationError(<<"Username '", req.username, "' already exists">>))
    ELSE IF find_by_email(req.email) # None
    THEN Some(UserValidationError(<<"Email '", req.email, "' already exists">>))
    ELSE IF /\ req.role = ADMIN /\ Given(requesting_user)
            /\ \/ find_by_username(requesting_user[1]) = None
               \/ ~is_admin(find_by_username(requesting_user[1])[1])
    THEN Some(UnauthorizedUserOperationError(<<"Only admins can create admin users">>))
    ELSE None

\* BaseRepository.create: INSERT and commit; a violated UNIQUE index rolls
\* the unit of work back and the IntegrityError is re-raised
create_user(req, requesting_user) ==
    LET err == user_validate_create_request(req, requesting_user)
        user == NewUser(req, Len(users) + 1, now)
        dup == UniqueViolation(Append(users, user))
        call(entity, raised, ret) ==
            Call("create_user", 0, requesting_user, req, None, entity, raised, FALSE, ret)
    IN  /\ now < MaxCalls
        /\ Len(users) < MaxUsers \/ err # None \/ dup # None
        /\ now' = now + 1
        /\ UNCHANGED <<db, items, sessions>>
        /\ IF err # None
           THEN users' = users /\ last' = call(None, err, None)
           ELSE IF dup # None
           THEN users' = users /\ last' = call(Some(user), dup, None)
           ELSE users' = Append(users, user) /\ last' = call(Some(user), None, Some(user))

can_user_modify_profile(user, requesting_user, req) ==
    LET requesting_user_obj == find_by_username(requesting_user)
        admin == requesting_user_obj # None /\ is_admin(requesting_user_obj[1])
    IN  IF user.username = requesting_user
        THEN IF req.role # None THEN admin ELSE TRUE
        ELSE admin

\* the email written without looking for another user who has it (used to
\* test the properties)
apply_user_updates_unchecked_email(user, req) ==
    LET u1 == IF req.full_name # None THEN [user EXCEPT !.full_name = req.full_name[1]]
              ELSE user
        u2 == IF req.email # None THEN [u1 EXCEPT !.email = req.email[1]] ELSE u1
        u3 == IF req.role # None THEN [u2 EXCEPT !.role = UserRole(req.role[1].value)] ELSE u2
        u4 == IF req.status # None
              THEN [u3 EXCEPT !.status = UserStatus(req.status[1].value)] ELSE u3
    IN  [user |-> u4, raised |-> None]

\* _apply_user_updates, in the order of the code; a raise leaves the earlier
\* assignment on the loaded entity
apply_user_updates(user, req) ==
    LET u1 == IF req.full_name # None THEN [user EXCEPT !.full_name = req.full_name[1]]
              ELSE user
        existing_user == find_by_email(req.email[1])
        u2 == IF req.email # None THEN [u1 EXCEPT !.email = req.email[1]] ELSE u1
        u3 == IF req.role # None THEN [u2 EXCEPT !.role = UserRole(req.role[1].value)] ELSE u2
        u4 == IF req.status # None
              THEN [u3 EXCEPT !.status = UserStatus(req.status[1].value)] ELSE u3
    IN  IF req.email # None /\ existing_user # None /\ existing_user[1].id # user.id
        THEN [user |-> u1,
              raised |-> Some(UserValidationError(
                             <<"Email '", req.email[1], "' already exists">>))]
        ELSE [user |-> u4, raised |-> None]

\* BaseRepository.update on the users table
user_commit(entity, t) ==
    IF entity = users[entity.id]
    THEN users
    ELSE [users EXCEPT ![entity.id] = [entity EXCEPT !.updated_at = Some(t)]]

update_user(user_id, req, requesting_user) ==
    LET found == user_get_by_id(user_id)
        user == found[1]
        applied == apply_user_updates(user, req)
        dup == UniqueViolation(user_commit(applied.user, now))
        call(entity, raised, updated, ret) ==
            Call("update_user", user_id, Some(requesting_user), req, found, entity,
                 raised, updated, ret)
    IN  /\ now < MaxCalls
        /\ now' = now + 1
        /\ UNCHANGED <<db, items, sessions>>
        /\ IF found = None
           THEN /\ users' = users
                /\ last' = call(None, Some(UserNotFoundError(user_id)), FALSE, None)
           ELSE IF ~can_user_modify_profile(user, requesting_user, req)
           THEN /\ users' = users
                /\ last' = call(found, Some(UnauthorizedUserOperationError(
                                <<"Not authorized to modify this user">>)), FALSE, None)
           ELSE IF applied.raised # None
           THEN /\ users' = users
                /\ last' = call(Some(applied.user), applied.raised, FALSE, None)
           ELSE IF dup # None
           THEN /\ users' = users
                /\ last' = call(Some(applied.user), dup, TRUE, None)
           ELSE /\ users' = user_commit(applied.user, now)
                /\ last' = call(Some(users'[user_id]), None, TRUE, Some(users'[user_id]))

delete_user(user_id, requesting_user) ==
    LET found == user_get_by_id(user_id)
        user == found[1]
        requesting_user_obj == find_by_username(requesting_user)
        call(entity, raised, ret) ==
            Call("delete_user", user_id, Some(requesting_user), NoUserReq, found, entity,
                 raised, FALSE, ret)
    IN  /\ now < MaxCalls
        /\ now' = now + 1
        /\ UNCHANGED <<db, items, sessions>>
        /\ IF found = None
           THEN /\ users' = users
                /\ last' = call(None, Some(UserNotFoundError(user_id)), None)
           ELSE IF requesting_user_obj = None \/ ~is_admin(requesting_user_obj[1])
           THEN /\ users' = users
                /\ last' = call(found, Some(UnauthorizedUserOperationError(
                                <<"Only admins can delete users">>)), None)
           ELSE IF user.username = requesting_user
           THEN /\ users' = users
                /\ last' = call(found, Some(UserValidationError(
                                <<"Cannot delete your own account">>)), None)
           ELSE IF is_admin(user)
           THEN /\ users' = users
                /\ last' = call(found, Some(UserValidationError(
                                <<"Cannot delete admin users">>)), None)
           ELSE /\ users' = [users EXCEPT ![user_id] =
                                [@ EXCEPT !.is_deleted = TRUE, !.updated_at = Some(now)]]
                /\ last' = call(Some(users'[user_id]), None, Some(TRUE))

Ann == <<"a", "n", "n">>
Bob == <<"b", "o", "b">>
Usernames == {Ann, Bob}
Emails == {<<"x">>, <<"y">>}
UserIds == 1..MaxUsers

CreateUserRequests ==
    {[username |-> n, email |-> e, full_name |-> <<"n">>, password |-> <<"p">>,
      role |-> UserRoleDTO(r)] : n \in Usernames, e \in Emails, r \in {"admin", "user"}}

UpdateUserRequests ==
    {[NoUserReq EXCEPT !.email = Some(e)] : e \in Emails}
    \cup {[NoUserReq EXCEPT !.full_name = Some(<<"m">>), !.email = Some(<<"x">>)],
          [NoUserReq EXCEPT !.role = Some(UserRoleDTO("admin"))],
          [NoUserReq EXCEPT !.status = Some(UserStatusDTO("inactive"))]}

UserInit ==
    /\ users = <<>>
    /\ now = 0
    /\ last = Call("init", 0, None, NoUserReq, None, None, None, FALSE, None)
    /\ db = <<>>
    /\ items = <<>>
    /\ sessions = <<>>

UserNext ==
    \/ \E req \in CreateUserRequests, u \in Opt(Usernames) : create_user(req, u)
    \/ \E i \in UserIds, req \in UpdateUserRequests, u \in Usernames : update_user(i, req, u)
    \/ \E i \in UserIds, u \in Usernames : delete_user(i, u)

UserSpec == UserInit /\ [][UserNext]_vars

\* ------------------------------------------- update_task requests in flight
\* Each request has its own Session (get_db), so its own unit of work: the
\* handler runs up to repository.update on the row it loaded, and
\* db.commit() then writes to the table as it is at that moment.
MaxSessions == 2
MaxSteps == 5

Sessions == 1..MaxSessions

NoSession ==
    [pc |-> "idle", id |-> 0, user |-> None, req |-> NoReq, loaded |-> None,
     entity |-> None]

\* the attributes whose value on the entity differs from the loaded one: the
\* columns the UPDATE of the flush sets
ChangedColumns(loaded, entity) == {f \in DOMAIN entity : entity[f] # loaded[f]}

\* a commit that gives way when the row changed since it was loaded (used
\* to test the properties)
flush_unless_stale(loaded, entity, t) ==
    IF ChangedColumns(loaded, entity) = {} \/ db[entity.id] # loaded
    THEN db
    ELSE [db EXCEPT ![entity.id] =
             [f \in DOMAIN @ |->
                 IF f \in ChangedColumns(loaded, entity) THEN entity[f]
                 ELSE IF f = "updated_at" THEN Some(t)
                 ELSE @[f]]]

\* BaseRepository.update, self.db.commit(): UPDATE tasks SET <changed
\* columns>, updated_at = now() WHERE id = :id, on the row as committed by
\* then; no statement when no attribute changed
flush(loaded, entity, t) ==
    IF ChangedColumns(loaded, entity) = {}
    THEN db
    ELSE [db EXCEPT ![entity.id] =
             [f \in DOMAIN @ |->
                 IF f \in ChangedColumns(loaded, entity) THEN entity[f]
                 ELSE IF f = "updated_at" THEN Some(t)
                 ELSE @[f]]]

\* update_task up to repository.update: load, authorize, can_be_edited,
\* _apply_task_updates on the loaded entity; a raise ends the request
update_task_begin(s, task_id, req, requesting_user) ==
    LET found == get_by_id(task_id)
        task == found[1]
        applied == apply_task_updates(task, req, now)
        call(entity, raised) ==
            Call("update_task", task_id, Some(requesting_user), req, found, entity,
                 raised, FALSE, None)
    IN  /\ now < MaxSteps
        /\ sessions[s].pc = "idle"
        /\ now' = now + 1
        /\ UNCHANGED <<db, users, items>>
        /\ IF found = None
           THEN /\ last' = call(None, Some(TaskNotFoundError(task_id)))
                /\ sessions' = sessions
           ELSE IF ~can_user_modify_task(task, requesting_user)
           THEN /\ last' = call(found, Some(UnauthorizedOperationError(
                                <<"User not authorized to modify this task">>)))
                /\ sessions' = sessions
           ELSE IF ~can_be_edited(task)
           THEN /\ last' = call(found, Some(TaskValidationError(
                                <<"Cannot edit completed or cancelled tasks">>)))
                /\ sessions' = sessions
           ELSE IF applied.raised # None
           THEN /\ last' = call(Some(applied.task), applied.raised)
                /\ sessions' = sessions
           ELSE /\ last' = last
                /\ sessions' = [sessions EXCEPT ![s] =
                       [pc |-> "loaded", id |-> task_id, user |-> Some(requesting_user),
                        req |-> req, loaded |-> found, entity |-> Some(applied.task)]]

\* repository.update(task): commit, refresh the entity from the table, and
\* answer with it
update_task_commit(s) ==
    LET unit == sessions[s]
    IN  /\ now < MaxSteps
        /\ unit.pc = "loaded"
        /\ now' = now + 1
        /\ UNCHANGED <<users, items>>
        /\ db' = flush(unit.loaded[1], unit.entity[1], now)
        /\ last' = Call("update_task", unit.id, unit.user, unit.req, unit.loaded,
                        Some(db'[unit.id]), None, TRUE, Some(db'[unit.id]))
        /\ sessions' = [sessions EXCEPT ![s] = NoSession]

\* the requests in flight are tried on one task, as create_task stored it
ConcCreateRequests ==
    {[title |-> Some(<<"a">>), description |-> None,
      priority |-> Some(TaskPriorityDTO("medium")), status |-> None, assigned_to |-> a,
      due_date |-> None, created_by |-> Some(<<"u", "1">>)] : a \in Opt({<<"u", "2">>})}

ConcUpdateRequests == {[NoReq EXCEPT !.title = Some(<<"b">>)]} \cup StatusOnly

ConcInit ==
    /\ \E req \in ConcCreateRequests :
          db = <<IF req.assigned_to # None
                 THEN assign_to_user(NewTask(req, 1, 0), req.assigned_to[1])
                 ELSE NewTask(req, 1, 0)>>
    /\ now = 1
    /\ last = Call("init", 0, None, NoReq, None, None, None, FALSE, None)
    /\ users = <<>>
    /\ items = <<>>
    /\ sessions = [s \in Sessions |-> NoSession]

ConcNext ==
    \/ \E s \in Sessions, i \in TaskIds, req \in ConcUpdateRequests, u \in Users :
          update_task_begin(s, i, req, u)
    \/ \E s \in Sessions : update_task_commit(s)

ConcSpec == ConcInit /\ [][ConcNext]_vars

\* ------------------------------------------------------------ properties
\* the transition table as the specification lists it, as (from, to) values
TransitionTable ==
    {<<"pending", "in_progress">>, <<"pending", "cancelled">>,
     <<"in_progress", "completed">>, <<"in_progress", "pending">>,
     <<"in_progress", "cancelled">>, <<"cancelled", "pending">>}

Mentions(msg, word) == \E i \in 1..Len(msg) : msg[i] = word

\* the last call was `op`, on a stored (not deleted) task
CalledOn(op) == last.op = op /\ last.pre # None
Requester == last.user[1]
ByCreatorOrAssignee ==
    last.pre[1].created_by = Requester \/ last.pre[1].assigned_to = Some(Requester)
Stored == db[last.id]

\* the fields of a row other than the ones named
SameExcept(p, q, fields) == \A f \in DOMAIN p \ fields : p[f] = q[f]

\* C1: update_task with a status field (and no due date in the past), by the
\* creator or assignee, changes the status from s to t only when (s, t) is
\* in the transition table; for every other pair (s = t included) it raises
\* TaskValidationError with a message naming s and t, and the stored status
\* stays s.
C1_TransitionsFollowTable ==
    (/\ CalledOn("update_task") /\ ByCreatorOrAssignee /\ last.req.status # None
     /\ last.req.due_date # None => last.req.due_date[1] >= last.at) =>
        LET s == last.pre[1].status.value
            t == last.req.status[1].value
        IN  <<s, t>> \notin TransitionTable =>
                /\ last.raised # None
                /\ last.raised[1].type = "TaskValidationError"
                /\ Mentions(last.raised[1].msg, s) /\ Mentions(last.raised[1].msg, t)
                /\ Stored.status.value = s

\* C2: completed is terminal: no step of update_task, complete_task,
\* assign_task (or any other service call) takes a stored task whose status
\* is completed to another status.
C2_CompletedIsTerminal ==
    [][\A i \in 1..Len(db) : db[i].status = COMPLETED => db'[i].status = COMPLETED]_vars

\* C2 witness: a service call went through on a task that was already completed
C2_Witness ==
    /\ CalledOn("assign_task") /\ last.raised = None
    /\ last.pre[1].status = COMPLETED
    /\ Stored.assigned_to # last.pre[1].assigned_to

\* C3: update_task with status = pending on a cancelled task, by its creator
\* or assignee, is accepted and leaves the task pending.
C3_CancelledCanBeReopened ==
    (/\ CalledOn("update_task") /\ ByCreatorOrAssignee
     /\ last.pre[1].status = CANCELLED
     /\ last.req = [NoReq EXCEPT !.status = Some(TaskStatusDTO("pending"))]) =>
        /\ last.raised = None
        /\ Stored.status = PENDING

\* C4: update_task with status = completed on a pending task, by its creator
\* or assignee, raises TaskValidationError and does not complete the task,
\* whatever other fields the request carries.
C4_PendingToCompletedRejected ==
    (/\ CalledOn("update_task") /\ ByCreatorOrAssignee
     /\ last.pre[1].status = PENDING
     /\ last.req.status = Some(TaskStatusDTO("completed"))) =>
        /\ last.raised # None
        /\ last.raised[1].type = "TaskValidationError"
        /\ Stored.status # COMPLETED
        /\ Stored.completed_at = None

\* C5: complete_task by the creator or assignee succeeds from each of the
\* four statuses and leaves the task completed with completed_at set to the
\* time of the call; neither the table nor can_be_edited is consulted.
C5_CompleteIsUnconditional ==
    (CalledOn("complete_task") /\ ByCreatorOrAssignee) =>
        /\ last.raised = None
        /\ last.updated
        /\ Stored.status = COMPLETED
        /\ Stored.completed_at = Some(last.at)

\* C5 witness: a cancelled task was completed, an edge the table lacks
C5_Witness ==
    /\ CalledOn("complete_task") /\ last.raised = None
    /\ last.pre[1].status = CANCELLED
    /\ Stored.status = COMPLETED

\* C6: in every reachable state every stored task (deleted or not) has
\* completed_at set if and only if its status is completed.
C6_CompletedAtIffCompleted ==
    \A i \in 1..Len(db) : (db[i].completed_at # None) <=> (db[i].status = COMPLETED)

\* C6 witness: update_task moved a task to completed through the status field
C6_Witness ==
    /\ CalledOn("update_task") /\ last.raised = None
    /\ last.req.status = Some(TaskStatusDTO("completed"))
    /\ Stored.status = COMPLETED /\ Stored.completed_at # None

\* C7: a successful assign_task(u) sets assigned_to = u, moves pending to
\* in_progress and leaves every other status as it was; title, description,
\* priority, created_by, due_date, completed_at and is_deleted (and id,
\* created_at) keep their values.
C7_AssignFrame ==
    (CalledOn("assign_task") /\ last.raised = None) =>
        /\ last.pre[1].created_by = Requester
        /\ Stored.assigned_to = last.req.assigned_to
        /\ Stored.status =
              IF last.pre[1].status = PENDING THEN IN_PROGRESS ELSE last.pre[1].status
        /\ SameExcept(last.pre[1], Stored, {"assigned_to", "status", "updated_at"})

\* C7 witness: assign_task moved a pending task to in_progress
C7_Witness ==
    /\ CalledOn("assign_task") /\ last.raised = None
    /\ last.pre[1].status = PENDING /\ Stored.status = IN_PROGRESS
    /\ last.pre[1].due_date # None

\* C8: for every stored task and every time t, is_overdue is true exactly
\* when due_date is set, due_date < t and the status is pending or
\* in_progress.
C8_IsOverdue ==
    \A i \in 1..Len(db) : \A t \in 0..(MaxTime + 2) :
        is_overdue(db[i], t) <=>
            /\ db[i].due_date # None
            /\ db[i].due_date[1] < t
            /\ db[i].status.value \in {"pending", "in_progress"}

\* C8 witness: a completed task whose due date has passed, and is not overdue
C8_Witness ==
    \E i \in 1..Len(db) :
        /\ db[i].status = COMPLETED
        /\ db[i].due_date # None /\ db[i].due_date[1] < now
        /\ ~is_overdue(db[i], now)

\* C9 as stated: update_task on a stored task that is completed or cancelled
\* raises TaskValidationError("Cannot edit completed or cancelled tasks") for
\* every request, changes no field and does not call repository.update.
C9_UneditableAlwaysValidationError ==
    (CalledOn("update_task") /\ last.pre[1].status.value \in {"completed", "cancelled"}) =>
        /\ ~can_be_edited(last.pre[1])
        /\ last.raised =
              Some(TaskValidationError(<<"Cannot edit completed or cancelled tasks">>))
        /\ Stored = last.pre[1] /\ last.entity = last.pre
        /\ ~last.updated

\* C9 amended: can_be_edited is true iff the status is neither completed nor
\* cancelled; update_task on a stored task for which it is false changes no
\* field and does not call repository.update, raising the "Cannot edit"
\* TaskValidationError when the requester is the creator or assignee and
\* UnauthorizedOperationError for any other requester.
C9_UneditableRejected ==
    /\ \A i \in 1..Len(db) :
          can_be_edited(db[i]) <=> db[i].status.value \notin {"completed", "cancelled"}
    /\ (CalledOn("update_task") /\ last.pre[1].status.value \in {"completed", "cancelled"}) =>
          /\ last.raised # None
          /\ IF ByCreatorOrAssignee
             THEN last.raised[1] =
                     TaskValidationError(<<"Cannot edit completed or cancelled tasks">>)
             ELSE last.raised[1].type = "UnauthorizedOperationError"
          /\ Stored = last.pre[1] /\ last.entity = last.pre
          /\ ~last.updated

\* C9 witness: the creator's update of a cancelled task was refused
C9_Witness ==
    /\ CalledOn("update_task") /\ ByCreatorOrAssignee
    /\ last.pre[1].status = CANCELLED
    /\ last.req.title # None
    /\ last.raised # None /\ last.raised[1].type = "TaskValidationError"

\* the filters and windows the reads are tried with
SomeFilters ==
    {<<>>} \cup {[status |-> Some(st)] : st \in {PENDING, IN_PROGRESS, COMPLETED, CANCELLED}}
    \cup {[created_by |-> Some(u)] : u \in Users}
    \cup {[search |-> Some(<<"a">>)], [search |-> Some(<<"d">>)], [nofield |-> Some(0)]}
InSeq(r, rows) == \E k \in 1..Len(rows) : rows[k] = r

\* C10: a soft-deleted task is excluded by every read: none returns it,
\* counts it or reports it as existing, whatever the filters.
C10_DeletedExcludedFromReads ==
    \A i \in 1..Len(db) : db[i].is_deleted =>
        /\ get_by_id(i) = None
        /\ ~exists(i)
        /\ \A skip \in 0..MaxTasks, limit \in 0..MaxTasks : ~InSeq(db[i], get_all(skip, limit))
        /\ count(<<>>) = Cardinality({j \in 1..Len(db) : ~db[j].is_deleted})
        /\ count([is_deleted |-> TRUE]) = 0
        /\ \A f \in SomeFilters :
              db[i] \notin find_by_criteria(f) /\ db[i] \notin get_paginated_query(f)
        /\ db[i] \notin find_by_status(db[i].status)
        /\ \A u \in Users, c \in BOOLEAN, a \in BOOLEAN : db[i] \notin find_by_user(u, c, a)
        /\ db[i] \notin find_overdue_tasks
        /\ db[i] \notin find_high_priority_tasks
        /\ \A limit \in 0..MaxTasks : ~InSeq(db[i], search_tasks(db[i].title, limit))
        /\ get_task_statistics.total_tasks = Cardinality({j \in 1..Len(db) : ~db[j].is_deleted})

\* the paged read `op` was just answered with a page
Answered(op) == last.op = op /\ last.raised = None /\ last.ret # None
Reply == last.ret[1]

\* the stored, not deleted rows a listing asks for, by the meaning of its
\* query parameters
MatchingTasks(q) ==
    {i \in 1..Len(db) :
        /\ ~db[i].is_deleted
        /\ q.status # None => db[i].status.value = q.status[1].value
        /\ q.priority # None => db[i].priority.value = q.priority[1].value
        /\ q.assigned_to # None => db[i].assigned_to = q.assigned_to
        /\ q.created_by # None => db[i].created_by = q.created_by[1]}

MatchingUsers(q) ==
    {i \in 1..Len(users) :
        /\ ~users[i].is_deleted
        /\ q.role # None => users[i].role.value = q.role[1].value
        /\ q.status # None => users[i].status.value = q.status[1].value
        /\ q.search # None =>
              \E column \in {"username", "full_name", "email"} :
                  Contains(lower(users[i][column]), lower(q.search[1]))}

\* C11: the total_count of a page of tasks or of users is the number of
\* stored, not deleted rows that satisfy the filters of the listing: it does
\* not depend on page or size, so every page of one listing reports the same.
C11_TotalCountIsFilteredCount ==
    /\ Answered("get_tasks") => Reply.total = Cardinality(MatchingTasks(last.req))
    /\ Answered("get_users") => Reply.total = Cardinality(MatchingUsers(last.req))

\* C11 witness: a page past the end of a filtered listing still reports the
\* one matching task of a table of two
C11_Witness ==
    /\ Answered("get_tasks") /\ last.req.page > 1 /\ last.req.status # None
    /\ Len(db) = 2 /\ Reply.tasks = <<>> /\ Reply.total = 1

\* C12 (for a sort field the entity has): once pages 1..total_pages of one
\* listing of tasks have been read from an unchanged table, the pages put
\* end to end hold every matching task exactly once, in the requested order.
C12_PagesTileTheListing ==
    (/\ Answered("get_tasks") /\ last.walk # None
     /\ last.req.sort_by \in TaskColumns
     /\ last.walk[1].page >= Reply.total_pages) =>
        LET listed == last.walk[1].items
        IN  /\ \A i \in MatchingTasks(last.req) :
                  Cardinality({k \in 1..Len(listed) : listed[k] = db[i]}) = 1
            /\ Len(listed) = Cardinality(MatchingTasks(last.req))
            /\ Sorted(listed, last.req.sort_by, last.req.sort_order = DESC)

\* the least n with n * size >= total
CeilDiv(total, size) ==
    CHOOSE n \in 0..total : n * size >= total /\ \A m \in 0..(n - 1) : m * size < total

PageMetadata(q, rows) ==
    /\ q.page >= 1 /\ q.size >= 1 /\ q.size <= MaxSize
    /\ Reply.total_pages = CeilDiv(Reply.total, q.size)
    /\ Reply.has_next = (q.page < Reply.total_pages)
    /\ Reply.has_previous = (q.page > 1)
    /\ Reply.page = q.page /\ Reply.size = q.size
    /\ (q.page = 1 /\ Reply.total = 0) =>
          /\ rows = <<>> /\ Reply.total_pages = 0
          /\ ~Reply.has_next /\ ~Reply.has_previous

\* C13: every answered page of tasks or of users has page >= 1, size in
\* 1..100, total_pages = ceil(total / size), has_next = (page < total_pages)
\* and has_previous = (page > 1); page 1 of an empty listing has no items,
\* total = 0, total_pages = 0 and neither a next nor a previous page.
C13_PageMetadata ==
    /\ Answered("get_tasks") =>
          /\ PageMetadata(last.req, Reply.tasks)
          /\ MatchingTasks(last.req) = {} => Reply.total = 0
    /\ Answered("get_users") =>
          /\ PageMetadata(last.req, Reply.users)
          /\ MatchingUsers(last.req) = {} => Reply.total = 0

\* C13 witness: a listing whose only page is not full: rounding down would
\* give no page at all
C13_Witness ==
    /\ Answered("get_tasks") /\ last.req.page = 1 /\ last.req.size = 2
    /\ Reply.total = 1 /\ Reply.total_pages = 1
    /\ ~Reply.has_next /\ ~Reply.has_previous

\* C14: a page of tasks starts at offset (page - 1) * size and holds
\* min(size, max(0, total_count - offset)) items; when the offset is at or
\* past total_count the page is empty, total_count is unchanged and nothing
\* is raised.
C14_Window ==
    Answered("get_tasks") =>
        LET offset == (last.req.page - 1) * last.req.size
            left == IF Reply.total - offset > 0 THEN Reply.total - offset ELSE 0
        IN  /\ Len(Reply.tasks) = IF last.req.size < left THEN last.req.size ELSE left
            /\ offset >= Reply.total =>
                  Reply.tasks = <<>> /\ Reply.total = Cardinality(MatchingTasks(last.req))
            /\ last.walk # None =>
                  Len(last.walk[1].items) =
                      IF offset + last.req.size < Reply.total
                      THEN offset + last.req.size ELSE Reply.total

\* C14 witness: a page past the end of a listing that is not empty
C14_Witness ==
    /\ Answered("get_tasks") /\ last.req.page = 3 /\ last.req.size = 1
    /\ Reply.total = 2 /\ Reply.tasks = <<>>
    /\ last.walk # None /\ Len(last.walk[1].items) = 2

\* C15: a request for a page of tasks or of users with page < 1, size < 1,
\* size > 100 or a sort_order other than "asc" and "desc" is refused with a
\* validation error and gets no page: the query is not run, and the order
\* is not taken to be ascending.
C15_OutOfRangeRejected ==
    last.op \in {"get_tasks", "get_users"} =>
        ((\/ last.req.page < 1 \/ last.req.size < 1 \/ last.req.size > MaxSize
          \/ last.req.sort_order \notin {<<"a", "s", "c">>, <<"d", "e", "s", "c">>}) =>
            /\ last.raised # None /\ last.raised[1].type = "ValidationError"
            /\ last.ret = None /\ last.walk = None)

\* C15 witness: size = 101 was refused, and so was sort_order = "up"
C15_Witness ==
    /\ last.op = "get_tasks" /\ last.raised # None /\ Len(db) > 0
    /\ \/ last.req.size = MaxSize + 1
       \/ last.req.sort_order = <<"u", "p">>

\* C16: when sort_by names no field of the entity, the page of tasks or of
\* users comes ordered by created_at in the requested direction.
C16_UnknownSortFallsBackToCreatedAt ==
    /\ (Answered("get_tasks") /\ last.req.sort_by \notin TaskColumns) =>
          Sorted(Reply.tasks, "created_at", last.req.sort_order = DESC)
    /\ (Answered("get_users") /\ last.req.sort_by \notin UserColumns) =>
          Sorted(Reply.users, "created_at", last.req.sort_order = DESC)

\* the number of TRUE entries of a list, counted one after the other
RECURSIVE Tally(_)
Tally(flags) ==
    IF flags = <<>> THEN 0
    ELSE (IF Head(flags) THEN 1 ELSE 0) + Tally(Tail(flags))

\* the seven counters of a list of tasks read at time t, as the claim words them
Counters(tasks, t) ==
    LET n == Len(tasks)
    IN  [total_tasks |-> n,
         pending_tasks |-> Tally([k \in 1..n |-> tasks[k].status.value = "pending"]),
         in_progress_tasks |->
             Tally([k \in 1..n |-> tasks[k].status.value = "in_progress"]),
         completed_tasks |-> Tally([k \in 1..n |-> tasks[k].status.value = "completed"]),
         cancelled_tasks |-> Tally([k \in 1..n |-> tasks[k].status.value = "cancelled"]),
         overdue_tasks |-> Tally([k \in 1..n |-> is_overdue(tasks[k], t)]),
         high_priority_tasks |->
             Tally([k \in 1..n |-> tasks[k].priority.value \in {"high", "urgent"}])]

\* lists of stored tasks: the empty one, the table (deleted rows included),
\* the table twice over, its live rows, and each user's tasks
StoredLists ==
    {<<>>, db, db \o db, NotDeletedSeq}
    \cup {AsList(find_by_user(u, TRUE, TRUE)) : u \in {U1, U2}}

\* C17: for every list of tasks (the empty one gives all zeros),
\* _calculate_user_stats returns total = length of the list, one count per
\* status, overdue = the tasks for which is_overdue() holds and high_priority
\* = the tasks of priority high or urgent whatever their status; a completed
\* urgent task counts as high_priority and never as overdue.  The
\* repository's get_task_statistics gives these counters for the live rows.
C17_StatisticsCounters ==
    /\ \A tasks \in StoredLists :
          /\ calculate_user_stats(tasks, now) = Counters(tasks, now)
          /\ \A k \in 1..Len(tasks) :
                (tasks[k].status = COMPLETED /\ tasks[k].priority = URGENT) =>
                    /\ calculate_user_stats(<<tasks[k]>>, now).high_priority_tasks = 1
                    /\ calculate_user_stats(<<tasks[k]>>, now).overdue_tasks = 0
    /\ \A counter \in DOMAIN calculate_user_stats(<<>>, now) :
          calculate_user_stats(<<>>, now)[counter] = 0
    /\ get_task_statistics = Counters(NotDeletedSeq, now)

\* C17 witness: statistics were read over a table holding a completed urgent
\* task whose due date has passed
C17_Witness ==
    /\ last.op = "get_task_statistics" /\ last.ret # None
    /\ \E i \in 1..Len(db) :
          /\ db[i].status = COMPLETED /\ db[i].priority = URGENT /\ ~db[i].is_deleted
          /\ db[i].due_date # None /\ db[i].due_date[1] < now
    /\ last.ret[1].high_priority_tasks >= 1
    /\ last.ret[1].overdue_tasks = 0

\* C18: the global path of get_task_statistics returns what
\* _calculate_user_stats gives for the list of all live tasks, and the
\* per-user path returns the same counters over the live tasks the user
\* created or is assigned to.
C18_StatisticsPathsAgree ==
    /\ get_task_statistics = calculate_user_stats(NotDeletedSeq, now)
    /\ last.op = "get_task_statistics" =>
          IF last.user = None \/ last.user = Some(<<>>)
          THEN last.ret = Some(calculate_user_stats(NotDeletedSeq, now))
          ELSE last.ret =
                  Some(Counters(SelectSeq(db, LAMBDA r :
                          /\ ~r.is_deleted
                          /\ r.created_by = last.user[1] \/ r.assigned_to = last.user), now))

\* C18 witness: per-user statistics over a table where the user has some of
\* the live tasks and not all
C18_Witness ==
    /\ last.op = "get_task_statistics" /\ last.user = Some(U2)
    /\ last.ret[1].total_tasks = 1
    /\ get_task_statistics.total_tasks = 2
    /\ get_task_statistics.overdue_tasks = 1

\* C19: after every write of a task item (create, update with any fields,
\* complete, uncomplete, reorder, save), each stored item has completed_at
\* set if and only if is_completed is true.
C19_ItemCompletedAtIffCompleted ==
    \A i \in 1..Len(items) :
        items[i] # None => ((items[i][1].completed_at # None) <=> items[i][1].is_completed)

\* no two live (not deleted) rows share a username, none share an email
UniqueAmongLive(rows) ==
    \A i, j \in 1..Len(rows) :
        (i # j /\ ~rows[i].is_deleted /\ ~rows[j].is_deleted) =>
            rows[i].username # rows[j].username /\ rows[i].email # rows[j].email

\* the request would give a live user a username or an email that another
\* live user of `rows` has
CreateWouldClash(rows, req) ==
    \E i \in 1..Len(rows) :
        ~rows[i].is_deleted /\ (rows[i].username = req.username \/ rows[i].email = req.email)

UpdateWouldClash(rows, call) ==
    /\ call.pre # None
    /\ call.req.email # None
    /\ \E i \in 1..Len(rows) :
          ~rows[i].is_deleted /\ i # call.id /\ rows[i].email = call.req.email[1]

\* the requester is the user being updated (and asks for no role change) or
\* is a live admin
MayModify(rows, call) ==
    \/ call.pre[1].username = call.user[1] /\ call.req.role = None
    \/ \E i \in 1..Len(rows) :
          /\ ~rows[i].is_deleted /\ rows[i].username = call.user[1]
          /\ rows[i].role.value = "admin"

\* C20 as stated: after every create_user, update_user and delete_user no
\* two live users share a username or an email, and a create or an email
\* update that would break this raises UserValidationError and stores
\* nothing.
C20_ClashAlwaysValidationError ==
    [][/\ UniqueAmongLive(users')
       /\ (\/ last'.op = "create_user" /\ CreateWouldClash(users, last'.req)
           \/ last'.op = "update_user" /\ UpdateWouldClash(users, last')) =>
             /\ last'.raised # None
             /\ last'.raised[1].type = "UserValidationError"
             /\ users' = users]_vars

\* C20 amended: the same, except that the email update that would break
\* uniqueness raises UserValidationError only when the requester may modify
\* the profile (the user themself, or an admin); from any other requester it
\* raises UnauthorizedUserOperationError.  Nothing is stored either way.
C20_LiveUsersUnique ==
    [][/\ UniqueAmongLive(users')
       /\ (last'.op = "create_user" /\ CreateWouldClash(users, last'.req)) =>
             /\ last'.raised # None
             /\ last'.raised[1].type = "UserValidationError"
             /\ users' = users
       /\ (last'.op = "update_user" /\ UpdateWouldClash(users, last')) =>
             /\ last'.raised # None
             /\ last'.raised[1].type =
                   IF MayModify(users, last') THEN "UserValidationError"
                   ELSE "UnauthorizedUserOperationError"
             /\ users' = users]_vars

\* C20 witness: a user's own request for the email of another live user was
\* refused with UserValidationError
C20_Witness ==
    /\ last.op = "update_user" /\ UpdateWouldClash(users, last)
    /\ last.pre[1].username = last.user[1]
    /\ last.raised # None /\ last.raised[1].type = "UserValidationError"
    /\ users[last.id] = last.pre[1]

\* the step is a call of `op`: every call reads the clock and moves it on
Calls(op) == last'.op = op /\ last'.at = now /\ now' = now + 1

\* C21 as stated: every task create_task produces starts pending, with
\* completed_at unset and is_deleted false, with or without assigned_to.
C21_CreatedPending ==
    [][(Calls("create_task") /\ last'.raised = None) =>
          LET task == db'[last'.id]
          IN  /\ task.status = PENDING
              /\ task.completed_at = None
              /\ task.is_deleted = FALSE]_vars

\* C21 amended: create_task stores one new row, with completed_at unset and
\* is_deleted false; its status is pending when the request has no
\* assigned_to and in_progress, with that assignee, when it has one.
C21_CreatedPendingOrAssigned ==
    [][(Calls("create_task") /\ last'.raised = None) =>
          LET task == db'[last'.id]
          IN  /\ db' = Append(db, task) /\ last'.ret = Some(task)
              /\ task.completed_at = None
              /\ task.is_deleted = FALSE
              /\ task.assigned_to = last'.req.assigned_to
              /\ task.status =
                    IF last'.req.assigned_to = None THEN PENDING ELSE IN_PROGRESS]_vars

\* C21 witness: a task created with an assignee, stored in_progress
C21_Witness ==
    /\ last.op = "create_task" /\ last.raised = None
    /\ last.req.assigned_to # None
    /\ Stored.status = IN_PROGRESS /\ Stored.completed_at = None

\* C22: create_task raises TaskValidationError and stores no task whenever
\* the due_date of the request is earlier than now, and whenever its
\* priority is high or urgent and it has no due_date.
C22_CreateValidation ==
    [][(/\ Calls("create_task")
        /\ \/ last'.req.due_date # None /\ last'.req.due_date[1] < now
           \/ /\ last'.req.priority[1].value \in {"high", "urgent"}
              /\ last'.req.due_date = None) =>
          /\ last'.raised # None
          /\ last'.raised[1].type = "TaskValidationError"
          /\ last'.entity = None
          /\ db' = db]_vars

\* C24: delete_task succeeds only for the creator of a stored, not deleted,
\* not completed task: an unknown or already deleted id gets
\* TaskNotFoundError, a non-creator UnauthorizedOperationError, the creator
\* of a completed task TaskValidationError, and then no row changes; on
\* success True is returned, is_deleted becomes true, the row stays and its
\* other fields keep their values (updated_at, the stamp of the UPDATE, aside).
C24_DeleteTask ==
    [][Calls("delete_task") =>
          LET id == last'.id
              live == id \in 1..Len(db) /\ ~db[id].is_deleted
              refused(type) ==
                  /\ last'.raised # None /\ last'.raised[1].type = type
                  /\ last'.ret = None
                  /\ db' = db
          IN  IF ~live THEN refused("TaskNotFoundError")
              ELSE IF db[id].created_by # last'.user[1]
              THEN refused("UnauthorizedOperationError")
              ELSE IF db[id].status.value = "completed"
              THEN refused("TaskValidationError")
              ELSE /\ last'.raised = None /\ last'.ret = Some(TRUE)
                   /\ Len(db') = Len(db)
                   /\ db'[id].is_deleted = TRUE
                   /\ SameExcept(db[id], db'[id], {"is_deleted", "updated_at"})
                   /\ \A j \in 1..Len(db) : j # id => db'[j] = db[j]]_vars

\* C24 witness: the creator deleted an assigned, in_progress task, and the
\* row is still stored
C24_Witness ==
    /\ CalledOn("delete_task") /\ last.raised = None /\ last.ret = Some(TRUE)
    /\ last.pre[1].status = IN_PROGRESS /\ last.pre[1].assigned_to # None
    /\ Stored.is_deleted /\ Stored.assigned_to = last.pre[1].assigned_to

\* C25: when the query has no created_by filter, a page of get_tasks_paginated
\* holds only tasks the requesting user created or is assigned to, and total
\* counts only those among the tasks the filters select.
C25_OnlyAccessibleTasksListed ==
    (Answered("get_tasks") /\ ~Given(last.req.created_by)) =>
        LET accessible(r) ==
                r.created_by = Requester \/ r.assigned_to = Some(Requester)
        IN  /\ \A k \in 1..Len(Reply.tasks) : accessible(Reply.tasks[k])
            /\ Reply.total =
                  Cardinality({i \in MatchingTasks(last.req) : accessible(db[i])})

\* no two stored, not deleted tasks of one creator have titles that are
\* equal ignoring case
TitlesUniquePerUser(rows) ==
    \A i, j \in 1..Len(rows) :
        (/\ i # j /\ ~rows[i].is_deleted /\ ~rows[j].is_deleted
         /\ rows[i].created_by = rows[j].created_by) =>
            lower(rows[i].title) # lower(rows[j].title)

\* C26: task titles are unique per user after any sequence of create_task
\* and update_task calls (and the other calls of the service), and a create
\* that would break this raises TaskValidationError.
C26_TitlesUniquePerUser ==
    [][/\ TitlesUniquePerUser(db')
       /\ (/\ Calls("create_task")
           /\ \E i \in 1..Len(db) :
                 /\ ~db[i].is_deleted /\ db[i].created_by = last'.req.created_by[1]
                 /\ lower(db[i].title) = lower(last'.req.title[1])) =>
              /\ last'.raised # None /\ last'.raised[1].type = "TaskValidationError"
              /\ db' = db]_vars

\* the live (stored, not deleted) admins of a table of users
LiveAdmins(rows) ==
    {i \in 1..Len(rows) : ~rows[i].is_deleted /\ rows[i].role.value = "admin"}

\* C27: create_user with role admin, asked by a requesting_user who is not a
\* stored, not deleted admin, raises UnauthorizedUserOperationError and
\* stores no user (the request clashing with no stored username or email,
\* which is refused before); so no create by a non-admin adds an admin.
C27_OnlyAdminsCreateAdmins ==
    [][(/\ Calls("create_user") /\ Given(last'.user)
        /\ ~\E i \in LiveAdmins(users) : users[i].username = last'.user[1]) =>
          /\ (/\ last'.req.role.value = "admin"
              /\ ~CreateWouldClash(users, last'.req)) =>
                 /\ last'.raised # None
                 /\ last'.raised[1].type = "UnauthorizedUserOperationError"
                 /\ users' = users
          /\ LiveAdmins(users') \subseteq LiveAdmins(users)]_vars

\* C28: on a stored task, update_task and complete_task asked by a user who
\* is neither its creator nor its assignee, and assign_task asked by anyone
\* but its creator, raise UnauthorizedOperationError; no field of the task
\* changes and repository.update is not called.
C28_OnlyCreatorOrAssigneeModifies ==
    [][\A op \in {"update_task", "complete_task", "assign_task"} :
          (/\ Calls(op)
           /\ last'.id \in 1..Len(db) /\ ~db[last'.id].is_deleted
           /\ LET task == db[last'.id]
                  user_id == last'.user[1]
              IN  IF op = "assign_task"
                  THEN task.created_by # user_id
                  ELSE task.created_by # user_id /\ task.assigned_to # Some(user_id)) =>
              /\ last'.raised # None
              /\ last'.raised[1].type = "UnauthorizedOperationError"
              /\ last'.entity = Some(db[last'.id])
              /\ ~last'.updated
              /\ db' = db]_vars

\* C28 witness: the assignee of a task, who is not its creator, asked to
\* reassign it and was refused
C28_Witness ==
    /\ CalledOn("assign_task")
    /\ last.pre[1].assigned_to = Some(Requester) /\ last.pre[1].created_by # Requester
    /\ last.raised # None /\ last.raised[1].type = "UnauthorizedOperationError"
    /\ Stored = last.pre[1]

\* C29: update_task is all-or-nothing: whenever it raises, none of the fields
\* of the request has been applied to the loaded task entity, no stored
\* field has changed and repository.update has not been called.
C29_UpdateAllOrNothing ==
    (last.op = "update_task" /\ last.raised # None) =>
        /\ last.entity = last.pre
        /\ ~last.updated
        /\ last.pre # None => Stored = last.pre[1]

\* C30: completed_at is write-once: once the completed_at of a stored task
\* is set, no later call of the service (update_task, assign_task,
\* complete_task, delete_task) changes its value.
C30_CompletedAtWriteOnce ==
    [][\A i \in 1..Len(db) :
          db[i].completed_at # None => db'[i].completed_at = db[i].completed_at]_vars

\* the step is the commit of the unit of work of request s
Commits(s) == sessions[s].pc = "loaded" /\ sessions'[s].pc = "idle"

\* C23: the status check-then-set of update_task is not atomic: a request
\* validates its transition against the status it loaded (after its own
\* assignment), whatever was committed since, and its commit persists every
\* column it changed; so the writes of two requests that both loaded the
\* task before either committed are both stored.
C23_CheckThenSetNotAtomic ==
    [][\A s \in Sessions : Commits(s) =>
          LET unit == sessions[s]
              loaded == unit.loaded[1]
              entity == unit.entity[1]
              observed ==
                  IF unit.req.assigned_to # None /\ loaded.status = PENDING
                  THEN IN_PROGRESS ELSE loaded.status
          IN  /\ last'.raised = None
              /\ unit.req.status # None =>
                    /\ <<observed.value, unit.req.status[1].value>> \in TransitionTable
                    /\ db'[unit.id].status.value = unit.req.status[1].value
              /\ \A f \in ChangedColumns(loaded, entity) : db'[unit.id][f] = entity[f]
              /\ \A f \in DOMAIN entity \ (ChangedColumns(loaded, entity) \cup {"updated_at"}) :
                    db'[unit.id][f] = db[unit.id][f]]_vars

\* C23 witness: two requests loaded the in_progress task, one committed
\* completed, and the commit of the other overwrote completed with pending
\* (not in the table), leaving completed_at set on a pending task
C23_Witness ==
    /\ last.op = "update_task" /\ last.raised = None /\ last.updated
    /\ last.pre[1].status = IN_PROGRESS
    /\ last.req.status = Some(TaskStatusDTO("pending"))
    /\ Stored.status = PENDING /\ Stored.completed_at # None
    /\ <<"completed", "pending">> \notin TransitionTable
====
